---- MODULE Spec2Model ----
(***************************************************************************)
(* A model of the NetHttp server (elskow/NetHttp, app/): the listener      *)
(* loop, one worker per accepted connection, the line oriented request     *)
(* parser on top of a bufio.Reader, the route matcher, the four handlers   *)
(* and sendResponse.  Byte strings are TLA+ strings; a connection is the   *)
(* bytes still at the client, the bytes in the socket's receive queue and  *)
(* the bytes buffered in the worker's bufio.Reader.                        *)
(***************************************************************************)
EXTENDS Integers, Sequences, FiniteSets, TLC

(***************************************************************************)
(* Bounds of the model.                                                    *)
(***************************************************************************)
\* largest number of TCP segments one client request is cut into
MaxSegments == 2
\* largest number of failed listener.Accept calls that are told apart
MaxAcceptErrors == 1

\* the connections that may be accepted
Conns == {"c1", "c2"}

(***************************************************************************)
(* strings: the helpers of package strings the server uses                 *)
(***************************************************************************)
\* the byte 0x00 of a freshly made []byte; no client sends this character
NUL == "@"

Min(a, b) == IF a < b THEN a ELSE b

\* s[i] as a one byte string
Ch(s, i) == SubSeq(s, i, i)

\* s[i:] of Go with 1-based i
From(s, i) == SubSeq(s, i, Len(s))

IsSpace(c) == c \in {" ", "\t", "\n", "\r", "\f"}

RECURSIVE TrimLeft(_)
TrimLeft(s) ==
  IF Len(s) > 0 /\ IsSpace(Ch(s, 1)) THEN TrimLeft(From(s, 2)) ELSE s

RECURSIVE TrimRight(_)
TrimRight(s) ==
  IF Len(s) > 0 /\ IsSpace(Ch(s, Len(s)))
  THEN TrimRight(SubSeq(s, 1, Len(s) - 1)) ELSE s

\* strings.TrimSpace
TrimSpace(s) == TrimRight(TrimLeft(s))

\* strings.HasPrefix
HasPrefix(s, p) == Len(s) >= Len(p) /\ SubSeq(s, 1, Len(p)) = p

\* strings.Index, 1-based; 0 when sep does not occur in s
Index(s, sep) ==
  LET hits == {i \in 1..(Len(s) - Len(sep) + 1) :
                 SubSeq(s, i, i + Len(sep) - 1) = sep}
  IN IF hits = {} THEN 0 ELSE CHOOSE i \in hits : \A j \in hits : i <= j

\* strings.Split for a non-empty separator
RECURSIVE Split(_, _)
Split(s, sep) ==
  LET i == Index(s, sep)
  IN IF i = 0 THEN <<s>>
     ELSE <<SubSeq(s, 1, i - 1)>> \o Split(From(s, i + Len(sep)), sep)

\* strings.SplitN(s, sep, 2)
SplitN2(s, sep) ==
  LET i == Index(s, sep)
  IN IF i = 0 THEN <<s>>
     ELSE <<SubSeq(s, 1, i - 1), From(s, i + Len(sep))>>

\* a Go map[string]string: reading a missing key yields ""
EmptyMap == [k \in {} |-> ""]
MapGet(m, k) == IF k \in DOMAIN m THEN m[k] ELSE ""
MapPut(m, k, v) == [x \in DOMAIN m \cup {k} |-> IF x = k THEN v ELSE m[x]]

(***************************************************************************)
(* fmt: Sscanf("%d") and Sprintf("%d")                                     *)
(***************************************************************************)
Digits == "0123456789"

IsDigit(c) == Len(c) = 1 /\ Index(Digits, c) > 0

DigitVal(c) == Index(Digits, c) - 1

\* the number of leading decimal digits of s
RECURSIVE DigitRun(_)
DigitRun(s) ==
  IF Len(s) > 0 /\ IsDigit(Ch(s, 1)) THEN 1 + DigitRun(From(s, 2)) ELSE 0

RECURSIVE ParseDigits(_, _)
ParseDigits(s, acc) ==
  IF Len(s) = 0 THEN acc
  ELSE ParseDigits(From(s, 2), 10 * acc + DigitVal(Ch(s, 1)))

\* fmt.Sscanf(s, "%d", &length) with length holding old before the call:
\* leading space is skipped, a sign is accepted, then the longest run of
\* digits is read; without a digit the scan fails and length keeps its
\* value (the caller drops the error).  Input after the number is left alone.
SscanfInt(s, old) ==
  LET t      == TrimLeft(s)
      neg    == HasPrefix(t, "-")
      signed == neg \/ HasPrefix(t, "+")
      u      == IF signed THEN From(t, 2) ELSE t
      n      == DigitRun(u)
  IN IF n = 0 THEN old
     ELSE (IF neg THEN -1 ELSE 1) * ParseDigits(SubSeq(u, 1, n), 0)

\* fmt.Sprintf("%d", n) for n >= 0
RECURSIVE Itoa(_)
Itoa(n) ==
  IF n < 10 THEN Ch(Digits, n + 1)
  ELSE Itoa(n \div 10) \o Ch(Digits, (n % 10) + 1)

(***************************************************************************)
(* compress/gzip as the server uses it: a member is a 10 byte header, the  *)
(* deflate stream (kept as a stored block here) and an 8 byte trailer.     *)
(***************************************************************************)
GzipHeader == "<gzip-hdr>"
GzipTrailer == "crc+size"

GzipCompress(b) == GzipHeader \o b \o GzipTrailer

\* the outcomes of the compressor: no error, gz.Write fails, gz.Close fails
GzipOutcomes == {"ok", "write", "close"}

(***************************************************************************)
(* Types and constants (server.go)                                         *)
(***************************************************************************)
MethodGet == "GET"
MethodPost == "POST"

StatusOK == "HTTP/1.1 200 OK"
StatusNotFound == "HTTP/1.1 404 Not Found"
StatusInternalServerError == "HTTP/1.1 500 Internal Server Error"
StatusCreated == "HTTP/1.1 201 Created"
StatusMethodNotAllowed == "HTTP/1.1 405 Method Not Allowed"

ContentTypePlainText == "text/plain"
ContentTypeOctetStream == "application/octet-stream"

\* the -directory flag: its default value
directoryFlag == "/tmp"

\* a slip in setupRoutes: "/" is registered with the echo handler
routesIndexAsEcho ==
  [p \in {"/", "/echo/:message", "/user-agent", "/files/:filename"} |->
     CASE p = "/"                -> "handleEchoMessage"
       [] p = "/echo/:message"   -> "handleEchoMessage"
       [] p = "/user-agent"      -> "handleUserAgent"
       [] p = "/files/:filename" -> "handleFiles"]

\* a slip in setupRoutes: a fifth pattern that matches every one-segment path
routesWithCatchAll ==
  [p \in {"/", "/echo/:message", "/user-agent", "/files/:filename",
          "/:page"} |->
     CASE p = "/"                -> "handleIndex"
       [] p = "/echo/:message"   -> "handleEchoMessage"
       [] p = "/user-agent"      -> "handleUserAgent"
       [] p = "/files/:filename" -> "handleFiles"
       [] p = "/:page"           -> "handleEchoMessage"]

\* setupRoutes: the patterns registered, each with the name of its handler
routes ==
  [p \in {"/", "/echo/:message", "/user-agent", "/files/:filename"} |->
     CASE p = "/"                -> "handleIndex"
       [] p = "/echo/:message"   -> "handleEchoMessage"
       [] p = "/user-agent"      -> "handleUserAgent"
       [] p = "/files/:filename" -> "handleFiles"]

\* the value of a *HTTPRequest that was never produced
NoRequest == [Method |-> "", Path |-> "", Headers |-> EmptyMap, Body |-> "",
              produced |-> FALSE]

(***************************************************************************)
(* parseRequestLine                                                        *)
(***************************************************************************)
\* a slip: the method is not validated
parseRequestLineAnyMethod(requestLine) ==
  LET parts == Split(TrimSpace(requestLine), " ")
  IN IF Len(parts) < 2
     THEN [method |-> "", path |-> "", err |-> "malformed request line"]
     ELSE [method |-> parts[1], path |-> parts[2], err |-> ""]

\* a slip: a request line without a path is read as a request for "/"
parseRequestLineDefaultPath(requestLine) ==
  LET parts == Split(TrimSpace(requestLine), " ")
  IN IF parts[1] # MethodGet /\ parts[1] # MethodPost
     THEN [method |-> "", path |-> "", err |-> "unsupported method"]
     ELSE [method |-> parts[1],
           path |-> IF Len(parts) < 2 THEN "/" ELSE parts[2], err |-> ""]

parseRequestLine(requestLine) ==
  LET parts == Split(TrimSpace(requestLine), " ")
  IN IF Len(parts) < 2
     THEN [method |-> "", path |-> "", err |-> "malformed request line"]
     ELSE IF parts[1] # MethodGet /\ parts[1] # MethodPost
     THEN [method |-> "", path |-> "", err |-> "unsupported method"]
     ELSE [method |-> parts[1], path |-> parts[2], err |-> ""]

(***************************************************************************)
(* parseHeaders: the effect of one header line on the headers map          *)
(***************************************************************************)
\* a slip: a name that is already in the map keeps its first value
HeaderLineFirstWins(headers, line) ==
  LET parts == SplitN2(line, ": ")
  IN IF Len(parts) < 2 \/ parts[1] \in DOMAIN headers THEN headers
     ELSE MapPut(headers, parts[1], parts[2])

HeaderLine(headers, line) ==
  LET parts == SplitN2(line, ": ")
  IN IF Len(parts) < 2 THEN headers
     ELSE MapPut(headers, parts[1], parts[2])

(***************************************************************************)
(* readBody: the length it allocates and what one reader.Read leaves in    *)
(* the slice when avail are the bytes that Read can copy                   *)
(***************************************************************************)
BodyLength(contentLength) == SscanfInt(contentLength, 0)

RECURSIVE Zeroes(_)
Zeroes(n) == IF n <= 0 THEN "" ELSE NUL \o Zeroes(n - 1)

\* the bytes one Read copies into a slice of length bytes
ReadCount(length, avail) == Min(length, Len(avail))

\* string(body) after the Read: the bytes copied, then the zero bytes of make
ReadInto(length, avail) ==
  SubSeq(avail, 1, ReadCount(length, avail))
    \o Zeroes(length - ReadCount(length, avail))

(***************************************************************************)
(* matchRoute: the result and the params map as the call leaves it         *)
(***************************************************************************)
\* a slip: the parameter is bound under its name with the colon
RECURSIVE MatchPartsKeepColon(_, _, _, _)
MatchPartsKeepColon(routeParts, pathParts, i, params) ==
  IF i > Len(routeParts) THEN [matched |-> TRUE, params |-> params]
  ELSE IF HasPrefix(routeParts[i], ":")
  THEN MatchPartsKeepColon(routeParts, pathParts, i + 1,
                           MapPut(params, routeParts[i], pathParts[i]))
  ELSE IF routeParts[i] # pathParts[i]
  THEN [matched |-> FALSE, params |-> params]
  ELSE MatchPartsKeepColon(routeParts, pathParts, i + 1, params)

RECURSIVE MatchParts(_, _, _, _)
MatchParts(routeParts, pathParts, i, params) ==
  IF i > Len(routeParts) THEN [matched |-> TRUE, params |-> params]
  ELSE IF HasPrefix(routeParts[i], ":")
  THEN MatchParts(routeParts, pathParts, i + 1,
                  MapPut(params, From(routeParts[i], 2), pathParts[i]))
  ELSE IF routeParts[i] # pathParts[i]
  THEN [matched |-> FALSE, params |-> params]
  ELSE MatchParts(routeParts, pathParts, i + 1, params)

\* a slip: the segment counts are not compared, the segments both have are
matchRouteNoCount(requestPath, route, params) ==
  LET routeParts == Split(route, "/")
      pathParts  == Split(requestPath, "/")
      n          == Min(Len(routeParts), Len(pathParts))
  IN MatchParts(SubSeq(routeParts, 1, n), SubSeq(pathParts, 1, n), 1, params)

matchRoute(requestPath, route, params) ==
  LET routeParts == Split(route, "/")
      pathParts  == Split(requestPath, "/")
  IN IF Len(routeParts) # Len(pathParts)
     THEN [matched |-> FALSE, params |-> params]
     ELSE MatchParts(routeParts, pathParts, 1, params)

(***************************************************************************)
(* handleConnection: the loop over the routes.  A Go map is ranged over in *)
(* any order: an order is one way of visiting all the patterns.            *)
(***************************************************************************)
Orders(patterns) ==
  {o \in [1..Cardinality(patterns) -> patterns] :
     \A i, j \in DOMAIN o : i # j => o[i] # o[j]}

\* params := make(map[string]string) and the matchRoute call, for each
\* pattern of the table: every attempt starts from a map of its own
Attempts(table, requestPath) ==
  [p \in DOMAIN table |-> matchRoute(requestPath, p, EmptyMap)]

\* the loop from the i-th pattern of order on: the pattern of the first
\* attempt that matches and the params map of that attempt
RECURSIVE RouteLoop(_, _, _)
RouteLoop(order, i, attempts) ==
  IF i > Len(order)
  THEN [matched |-> FALSE, route |-> "", params |-> EmptyMap]
  ELSE IF attempts[order[i]].matched
  THEN [matched |-> TRUE, route |-> order[i],
        params |-> attempts[order[i]].params]
  ELSE RouteLoop(order, i + 1, attempts)

\* what the loop may end with, over the orders the range may take
LoopResults(orders, table, requestPath) ==
  UNION { {RouteLoop(order, 1, attempts) : order \in orders} :
          attempts \in {Attempts(table, requestPath)} }

(***************************************************************************)
(* The handlers: the arguments each hands to sendResponse                  *)
(***************************************************************************)
Args(status, contentType, body, contentEncoding, bodyIsCompressed) ==
  [status |-> status, contentType |-> contentType, body |-> body,
   contentEncoding |-> contentEncoding, bodyIsCompressed |-> bodyIsCompressed]

NoArgs == Args("", "", "", "", FALSE)

handleIndex == Args(StatusOK, ContentTypePlainText, "", "", FALSE)

\* a slip: the header is looked up under another spelling of its name
handleUserAgentWrongKey(request) ==
  Args(StatusOK, ContentTypePlainText, MapGet(request.Headers, "user-agent"),
       "", FALSE)

handleUserAgent(request) ==
  Args(StatusOK, ContentTypePlainText, MapGet(request.Headers, "User-Agent"),
       "", FALSE)

\* a slip: the encodings are compared without trimming them
gzipSupportedNoTrim(acceptEncoding) ==
  LET encodings == Split(acceptEncoding, ",")
  IN \E i \in 1..Len(encodings) : encodings[i] = "gzip"

\* the loop of handleEchoMessage over the comma separated encodings
gzipSupported(acceptEncoding) ==
  LET encodings == Split(acceptEncoding, ",")
  IN \E i \in 1..Len(encodings) : TrimSpace(encodings[i]) = "gzip"

\* a slip: the whole path is echoed instead of the message parameter
handleEchoMessageWholePath(request, params) ==
  IF gzipSupported(MapGet(request.Headers, "Accept-Encoding"))
  THEN Args(StatusOK, ContentTypePlainText, request.Path, "gzip", TRUE)
  ELSE Args(StatusOK, ContentTypePlainText, request.Path, "", FALSE)

handleEchoMessage(request, params) ==
  LET message == MapGet(params, "message")
  IN IF gzipSupported(MapGet(request.Headers, "Accept-Encoding"))
     THEN Args(StatusOK, ContentTypePlainText, message, "gzip", TRUE)
     ELSE Args(StatusOK, ContentTypePlainText, message, "", FALSE)

\* handleFiles: the path of the file
filePath(params) == directoryFlag \o MapGet(params, "filename")

\* a slip: the error of the read-back is not looked at
readBackResponseNoCheck(o, writtenContent, body) ==
  Args(StatusCreated, ContentTypeOctetStream, writtenContent, "", FALSE)

\* a slip: the request body is sent back instead of what was read back
readBackResponseOwnBody(o, writtenContent, body) ==
  IF o = "ok"
  THEN Args(StatusCreated, ContentTypeOctetStream, body, "", FALSE)
  ELSE Args(StatusInternalServerError, ContentTypePlainText, "", "", FALSE)

\* handleFiles, POST: the sendResponse call after the read-back with outcome
\* o, where writtenContent is what os.ReadFile returned (empty on an error)
\* and body is the body of the request
readBackResponse(o, writtenContent, body) ==
  IF o = "ok"
  THEN Args(StatusCreated, ContentTypeOctetStream, writtenContent, "", FALSE)
  ELSE Args(StatusInternalServerError, ContentTypePlainText, "", "", FALSE)

(***************************************************************************)
(* sendResponse: the header block                                          *)
(***************************************************************************)
\* whether sendResponse takes the gzip branch
Compresses(args) == args.bodyIsCompressed /\ args.contentEncoding = "gzip"

\* bodyBytes when the compressor reports no error
BodyBytes(args) ==
  IF Compresses(args) THEN GzipCompress(args.body) ELSE args.body

\* a slip: the length of the body as passed in, not of the bytes written
ContentLengthOfBody(body, bodyBytes) == Len(body)

\* the number printed in the Content-Length line
ContentLength(body, bodyBytes) == Len(bodyBytes)

ResponseHeaders(args) ==
  args.status \o "\r\n" \o "Content-Type: " \o args.contentType \o "\r\n"
    \o (IF Compresses(args)
        THEN "Content-Encoding: " \o args.contentEncoding \o "\r\n" ELSE "")
    \o "Content-Length: "
    \o Itoa(ContentLength(args.body, BodyBytes(args))) \o "\r\n\r\n"

(***************************************************************************)
(* The requests clients send.  A request is the sequence of TCP segments   *)
(* its bytes travel in.                                                    *)
(***************************************************************************)
RawRequests ==
  { "GET / HTTP/1.1\r\n\r\n",
    "GET /echo/ab\nAccept-Encoding: gzip\n\n",
    "GET /echo/ab\nAccept-Encoding: br , gzip\n\n",
    "GET /echo/ab\nAccept-Encoding: xgzip,GZIP\n\n",
    "GET /echo/ab\n\n",
    "GET /echo/ab\nAccept-Encoding: gzip;q=1, gz ip\n\n",
    "GET /echo/\nAccept-Encoding: \tgzip\n\n",
    "GET /user-agent\nUser-Agent: f/1\n\n",
    "POST /files/x\nContent-Length: 2\n\nhi",
    "GET /files/x\n\n",
    "DELETE /files/x\n\n",
    "GET\n\n",
    "GET  /\n\n",
    "POST /files/x\nContent-Length: -1\n\nhi",
    "POST /files/x\nContent-Length: ab\n\nhi",
    "POST /files/x\nContent-Length: 0\n\n",
    "GET /nope\n\n",
    "GET /echo/a%20b\n\n",
    "GET /echo\n\n",
    "GET /\nAccept-Encoding: gzip\n\n",
    "GET /user-agent\nuser-agent: x\n\n",
    "GET /user-agent\n\n",
    "GET /user-agent\nBogus\nUser-Agent: a\nX: b: c\nUser-Agent: d\n\n",
    "GET /user-agent\r\nUser-Agent: \r\n A: b \r\n\r\n" }

\* every way of cutting s into at most k non-empty segments
RECURSIVE Cuts(_, _)
Cuts(s, k) ==
  IF k <= 1 \/ Len(s) <= 1 THEN {<<s>>}
  ELSE {<<s>>} \cup
       UNION { { <<SubSeq(s, 1, i)>> \o rest : rest \in Cuts(From(s, i + 1), k - 1) }
               : i \in 1..(Len(s) - 1) }

ParseInputs == UNION { Cuts(r, MaxSegments) : r \in RawRequests }

ConcInputs ==
  { <<"POST /files/x\nContent-Length: 2\n\nhi">>,
    <<"POST /files/x\nContent-Length: 2\n\ny", "o">>,
    <<"GET /files/x\n\n">>,
    <<"GET /\n\n">>,
    <<"GET\n">>,
    <<"POST /files/x\nContent-Length: -1\n\n">> }

\* route tables other than the one of setupRoutes, with patterns that overlap
\* and patterns that bind a parameter before a literal segment differs
MatchTables ==
  { routes,
    [p \in {"/:a/b", "/:x/:y"} |->
       IF p = "/:a/b" THEN "handleIndex" ELSE "handleEchoMessage"],
    [p \in {"/:message/b", "/a/:message", "/files/:filename/c"} |->
       CASE p = "/:message/b" -> "handleEchoMessage"
         [] p = "/a/:message" -> "handleUserAgent"
         [] OTHER             -> "handleFiles"],
    [p \in {"/:filename/:filename", "/:"} |->
       IF p = "/:" THEN "handleIndex" ELSE "handleFiles"] }

MatchInputs ==
  { <<"GET /\n\n">>, <<"GET /p/b\n\n">>, <<"GET /p/q\n\n">>,
    <<"GET /a/b\n\n">>, <<"GET /a/q\nUser-Agent: u\n\n">>,
    <<"GET /files/x/c\n\n">>, <<"GET /files/x/d\n\n">>,
    <<"GET /echo/m\n\n">>, <<"GET /user-agent\n\n">>, <<"GET //\n\n">>,
    <<"GET p\n\n">>, <<"POST /files/x\nContent-Length: 1\n\ny">>,
    <<"POST /q/r\nContent-Length: 1\n\n", "y">> }

\* the orders a range over each of these tables may take
TableOrders == [t \in MatchTables |-> Orders(DOMAIN t)]

RECURSIVE Concat(_)
Concat(segs) == IF segs = <<>> THEN "" ELSE Head(segs) \o Concat(Tail(segs))

(***************************************************************************)
(* State                                                                   *)
(***************************************************************************)
VARIABLES
  scenario,      \* which clients connect: "parse", "conc" or "match"
  serverRoutes,  \* s.routes: the patterns registered, each with its handler
  alive,         \* the server process is running
  acceptErrors,  \* failed listener.Accept calls so far (capped)
  pc,            \* per connection: where its worker stands
  raw,           \* per connection: all the bytes its client sends
  unsent,        \* per connection: segments the client has not sent yet
  sock,          \* per connection: bytes received and not yet read by the worker
  eof,           \* per connection: the client has closed its side
  buf,           \* per connection: bytes buffered in the bufio.Reader
  parsed,        \* per connection: method, path and headers of parseRequest
  request,       \* per connection: the *HTTPRequest parseRequest returned
  err,           \* per connection: the error parseRequest returned
  handler,       \* per connection: the handler handleConnection invoked
  params,        \* per connection: the params map handed to the handler
  fsErr,         \* per connection: the error of the handler's last file call
  args,          \* per connection: the arguments of the sendResponse call
  out,           \* per connection: the bytes written to the connection
  wrote,         \* per connection: how far sendResponse got
  files          \* the files of the directory: path -> content

vars == <<scenario, serverRoutes, alive, acceptErrors, pc, raw, unsent, sock,
          eof, buf,
          parsed, request, err, handler, params, fsErr, args, out, wrote,
          files>>

setupVars == <<scenario, serverRoutes>>
netVars == <<raw, unsent, sock, eof>>
reqVars == <<parsed, request, err>>
respVars == <<handler, params, fsErr, args, out, wrote>>

Inputs(c) ==
  CASE scenario = "parse" -> (IF c = "c1" THEN ParseInputs ELSE {})
    [] scenario = "match" -> (IF c = "c1" THEN MatchInputs ELSE {})
    [] OTHER              -> ConcInputs

NoParsed == [method |-> "", path |-> "", headers |-> EmptyMap]

InitState ==
  /\ alive = TRUE
  /\ acceptErrors = 0
  /\ pc = [c \in Conns |-> "free"]
  /\ raw = [c \in Conns |-> ""]
  /\ unsent = [c \in Conns |-> <<>>]
  /\ sock = [c \in Conns |-> ""]
  /\ eof = [c \in Conns |-> FALSE]
  /\ buf = [c \in Conns |-> ""]
  /\ parsed = [c \in Conns |-> NoParsed]
  /\ request = [c \in Conns |-> NoRequest]
  /\ err = [c \in Conns |-> ""]
  /\ handler = [c \in Conns |-> ""]
  /\ params = [c \in Conns |-> EmptyMap]
  /\ fsErr = [c \in Conns |-> ""]
  /\ args = [c \in Conns |-> NoArgs]
  /\ out = [c \in Conns |-> ""]
  /\ wrote = [c \in Conns |-> "nothing"]
  /\ files = EmptyMap

Init == InitState /\ scenario = "parse" /\ serverRoutes = routes

InitConc == InitState /\ scenario = "conc" /\ serverRoutes = routes

\* a server whose main registered one of the tables of MatchTables
InitMatch == InitState /\ scenario = "match" /\ serverRoutes \in MatchTables

(***************************************************************************)
(* The clients and the network                                             *)
(***************************************************************************)
\* the client sends its next segment; it queues behind what the worker has
\* not read yet
ClientSend(c) ==
  /\ alive
  /\ pc[c] \notin {"free", "closed"}
  /\ unsent[c] # <<>>
  /\ sock' = [sock EXCEPT ![c] = @ \o Head(unsent[c])]
  /\ unsent' = [unsent EXCEPT ![c] = Tail(@)]
  /\ UNCHANGED <<setupVars, alive, acceptErrors, pc, raw, eof, buf, reqVars,
                 respVars, files>>

\* the client closes its side; what it has not sent is never sent
ClientClose(c) ==
  /\ alive
  /\ pc[c] \notin {"free", "closed"}
  /\ ~eof[c]
  /\ eof' = [eof EXCEPT ![c] = TRUE]
  /\ unsent' = [unsent EXCEPT ![c] = <<>>]
  /\ raw' = [raw EXCEPT ![c] =
               SubSeq(@, 1, Len(@) - Len(Concat(unsent[c])))]
  /\ UNCHANGED <<setupVars, alive, acceptErrors, pc, sock, buf, reqVars,
                 respVars, files>>

(***************************************************************************)
(* ListenAndServe: the accept loop                                         *)
(***************************************************************************)
\* listener.Accept returns a connection and its worker is started
ListenAndServe(c) ==
  /\ alive
  /\ pc[c] = "free"
  /\ \E segs \in Inputs(c) :
       /\ raw' = [raw EXCEPT ![c] = Concat(segs)]
       /\ unsent' = [unsent EXCEPT ![c] = segs]
  /\ pc' = [pc EXCEPT ![c] = "reqline"]
  /\ UNCHANGED <<setupVars, alive, acceptErrors, sock, eof, buf, reqVars,
                 respVars, files>>

\* listener.Accept returns an error: it is logged and the loop continues
AcceptError ==
  /\ alive
  /\ acceptErrors < MaxAcceptErrors
  /\ acceptErrors' = acceptErrors + 1
  /\ UNCHANGED <<setupVars, alive, pc, netVars, buf, reqVars, respVars, files>>

(***************************************************************************)
(* parseRequest on the bufio.Reader of the connection                      *)
(***************************************************************************)
HasLine(b) == Index(b, "\n") > 0

\* reader.ReadString('\n') on buffered bytes that hold a delimiter
ReadString(b) == SubSeq(b, 1, Index(b, "\n"))
AfterLine(b) == From(b, Index(b, "\n") + 1)

\* ReadString finds no delimiter in the buffer and reads the socket: the
\* bytes received so far move into the buffer
Fill(c) ==
  /\ alive
  /\ pc[c] \in {"reqline", "headers"}
  /\ ~HasLine(buf[c])
  /\ sock[c] # ""
  /\ buf' = [buf EXCEPT ![c] = @ \o sock[c]]
  /\ sock' = [sock EXCEPT ![c] = ""]
  /\ UNCHANGED <<setupVars, alive, acceptErrors, pc, raw, unsent, eof, reqVars,
                 respVars, files>>

\* the error return of handleConnection: log, then the deferred conn.Close
Fail(c, e) ==
  /\ err' = [err EXCEPT ![c] = e]
  /\ pc' = [pc EXCEPT ![c] = "closed"]

\* ReadString reaches the end of the stream before a delimiter
AtEOF(c) == ~HasLine(buf[c]) /\ sock[c] = "" /\ eof[c]

\* the request line is read and parseRequestLine is applied to it
ReadRequestLine(c) ==
  /\ alive
  /\ pc[c] = "reqline"
  /\ \/ /\ HasLine(buf[c])
        /\ LET r == parseRequestLine(ReadString(buf[c]))
           IN IF r.err # ""
              THEN Fail(c, r.err) /\ UNCHANGED parsed
              ELSE /\ parsed' = [parsed EXCEPT ![c].method = r.method,
                                               ![c].path = r.path]
                   /\ pc' = [pc EXCEPT ![c] = "headers"]
                   /\ UNCHANGED err
        /\ buf' = [buf EXCEPT ![c] = AfterLine(@)]
     \/ /\ AtEOF(c)
        /\ Fail(c, "EOF")
        /\ UNCHANGED <<parsed, buf>>
  /\ UNCHANGED <<setupVars, alive, acceptErrors, netVars, request, respVars,
                 files>>

\* parseHeaders: one turn of its loop
parseHeaders(c) ==
  /\ alive
  /\ pc[c] = "headers"
  /\ \/ /\ HasLine(buf[c])
        /\ LET line == TrimSpace(ReadString(buf[c]))
           IN IF line = ""
              THEN /\ pc' = [pc EXCEPT ![c] = "body"]
                   /\ UNCHANGED parsed
              ELSE /\ parsed' = [parsed EXCEPT
                                   ![c].headers = HeaderLine(@, line)]
                   /\ UNCHANGED pc
        /\ buf' = [buf EXCEPT ![c] = AfterLine(@)]
        /\ UNCHANGED err
     \/ /\ AtEOF(c)
        /\ Fail(c, "EOF")
        /\ UNCHANGED <<parsed, buf>>
  /\ UNCHANGED <<setupVars, alive, acceptErrors, netVars, request, respVars,
                 files>>

\* parseRequest returns the request
Produce(c, body) ==
  /\ request' = [request EXCEPT ![c] =
                   [Method |-> parsed[c].method, Path |-> parsed[c].path,
                    Headers |-> parsed[c].headers, Body |-> body,
                    produced |-> TRUE]]
  /\ pc' = [pc EXCEPT ![c] = "route"]
  /\ UNCHANGED err

\* parseBody and readBody.  make([]byte, length) panics for a negative
\* length, and a panic in a worker ends the process.  reader.Read is a
\* single read: it copies what the buffer holds, and with an empty buffer
\* it reads the socket once and copies from what that read returned.
parseBody(c) ==
  /\ alive
  /\ pc[c] = "body"
  /\ LET headers == parsed[c].headers
         length  == BodyLength(MapGet(headers, "Content-Length"))
     IN IF "Content-Length" \notin DOMAIN headers
        THEN Produce(c, "") /\ UNCHANGED <<alive, buf, sock>>
        ELSE IF length < 0
        THEN /\ alive' = FALSE
             /\ UNCHANGED <<pc, request, err, buf, sock>>
        ELSE IF length = 0
        THEN Produce(c, "") /\ UNCHANGED <<alive, buf, sock>>
        ELSE IF buf[c] # ""
        THEN /\ Produce(c, ReadInto(length, buf[c]))
             /\ buf' = [buf EXCEPT ![c] = From(@, ReadCount(length, @) + 1)]
             /\ UNCHANGED <<alive, sock>>
        ELSE IF sock[c] # ""
        THEN /\ Produce(c, ReadInto(length, sock[c]))
             /\ buf' = [buf EXCEPT ![c] =
                          From(sock[c], ReadCount(length, sock[c]) + 1)]
             /\ sock' = [sock EXCEPT ![c] = ""]
             /\ UNCHANGED alive
        ELSE /\ eof[c]
             /\ Fail(c, "EOF")
             /\ UNCHANGED <<alive, request, buf, sock>>
  /\ UNCHANGED <<setupVars, acceptErrors, raw, unsent, eof, parsed, respVars,
                 files>>

(***************************************************************************)
(* The byte store: os.ReadFile and os.WriteFile                            *)
(***************************************************************************)
\* os.ReadFile: the content, or an error (always one for a missing file)
ReadFileOutcomes(path) ==
  IF path \in DOMAIN files THEN {"ok", "error"} ELSE {"error"}

\* os.WriteFile: it creates or truncates the file and writes the bytes; the
\* open may fail (the file is as before) or the write may (it is left empty)
WriteFileOutcomes == {"ok", "open-error", "write-error"}

WriteFile(path, data, outcome) ==
  CASE outcome = "ok"          -> MapPut(files, path, data)
    [] outcome = "open-error"  -> files
    [] outcome = "write-error" -> MapPut(files, path, "")

(***************************************************************************)
(* handleConnection: the loop over the routes, and the handler it calls up *)
(* to the handler's sendResponse call                                      *)
(***************************************************************************)
\* a handler calls sendResponse
Call(c, a) ==
  /\ args' = [args EXCEPT ![c] = a]
  /\ pc' = [pc EXCEPT ![c] = "send"]

\* handleFiles up to its first sendResponse call or to the read-back
handleFiles(c, req, ps) ==
  LET path == filePath(ps)
  IN CASE req.Method = "GET" ->
            \E o \in ReadFileOutcomes(path) :
              /\ fsErr' = [fsErr EXCEPT ![c] = IF o = "ok" THEN "" ELSE o]
              /\ IF o = "ok"
                 THEN Call(c, Args(StatusOK, ContentTypeOctetStream,
                                   files[path], "", FALSE))
                 ELSE Call(c, Args(StatusNotFound, ContentTypePlainText,
                                   "", "", FALSE))
              /\ UNCHANGED files
       [] req.Method = "POST" ->
            \E o \in WriteFileOutcomes :
              /\ files' = WriteFile(path, req.Body, o)
              /\ fsErr' = [fsErr EXCEPT ![c] = IF o = "ok" THEN "" ELSE o]
              /\ IF o = "ok"
                 THEN pc' = [pc EXCEPT ![c] = "readback"] /\ UNCHANGED args
                 ELSE Call(c, Args(StatusInternalServerError,
                                   ContentTypePlainText, "", "", FALSE))
       [] OTHER ->
            /\ Call(c, Args(StatusMethodNotAllowed, ContentTypePlainText,
                            "", "", FALSE))
            /\ UNCHANGED <<fsErr, files>>

\* the routes are visited in the order of a Go map, which is any order; the
\* handler of the first pattern that matches is called with the params map
\* of that attempt; without a match the reply is 404
handleConnection(c) ==
  /\ alive
  /\ pc[c] = "route"
  /\ \E r \in LoopResults(TableOrders[serverRoutes], serverRoutes,
                          request[c].Path) :
       LET req == request[c]
           ps  == r.params
           h   == serverRoutes[r.route]
       IN IF ~r.matched
          THEN /\ Call(c, Args(StatusNotFound, ContentTypePlainText, "", "",
                               FALSE))
               /\ UNCHANGED <<handler, params, fsErr, files>>
          ELSE /\ handler' = [handler EXCEPT ![c] = h]
               /\ params' = [params EXCEPT ![c] = ps]
               /\ CASE h = "handleIndex" ->
                         Call(c, handleIndex) /\ UNCHANGED <<fsErr, files>>
                    [] h = "handleUserAgent" ->
                         Call(c, handleUserAgent(req))
                           /\ UNCHANGED <<fsErr, files>>
                    [] h = "handleEchoMessage" ->
                         Call(c, handleEchoMessage(req, ps))
                           /\ UNCHANGED <<fsErr, files>>
                    [] h = "handleFiles" ->
                         handleFiles(c, req, ps)
  /\ UNCHANGED <<setupVars, alive, acceptErrors, netVars, buf,
                 reqVars, out, wrote>>

\* handleFiles, POST: the file just written is read back
handleFilesReadBack(c) ==
  /\ alive
  /\ pc[c] = "readback"
  /\ LET path == filePath(params[c])
     IN \E o \in ReadFileOutcomes(path) :
          /\ fsErr' = [fsErr EXCEPT ![c] = IF o = "ok" THEN "" ELSE o]
          /\ Call(c, readBackResponse(o,
                                      IF o = "ok" THEN files[path] ELSE "",
                                      request[c].Body))
  /\ UNCHANGED <<setupVars, alive, acceptErrors, netVars, buf, reqVars,
                 handler, params, out, wrote, files>>

(***************************************************************************)
(* sendResponse, and the conn.Close deferred by handleConnection           *)
(***************************************************************************)
\* what a failed conn.Write may have put on the wire: nothing, or all but
\* the last byte
PartialWrites(b) == {SubSeq(b, 1, n) : n \in {k \in {0, Len(b) - 1} : k >= 0}}

\* a slip: no return after a failed header write, the body write follows
sendResponseGoesOn(c) ==
  /\ alive
  /\ pc[c] = "send"
  /\ \E g \in (IF Compresses(args[c]) THEN GzipOutcomes ELSE {"ok"}) :
       IF g # "ok"
       THEN /\ wrote' = [wrote EXCEPT ![c] = "gzip-error"]
            /\ pc' = [pc EXCEPT ![c] = "closed"]
            /\ UNCHANGED out
       ELSE \/ /\ out' = [out EXCEPT ![c] = @ \o ResponseHeaders(args[c])]
               /\ wrote' = [wrote EXCEPT ![c] = "headers"]
               /\ pc' = [pc EXCEPT ![c] = "sendbody"]
            \/ /\ \E w \in PartialWrites(ResponseHeaders(args[c])) :
                    out' = [out EXCEPT ![c] = @ \o w]
               /\ wrote' = [wrote EXCEPT ![c] = "header-error"]
               /\ pc' = [pc EXCEPT ![c] = "sendbody"]
  /\ UNCHANGED <<setupVars, alive, acceptErrors, netVars, buf, reqVars,
                 handler, params, fsErr, args, files>>

\* a slip: the error of the compressor is looked at after the header write
sendResponseLateGzipCheck(c) ==
  /\ alive
  /\ pc[c] = "send"
  /\ \E g \in (IF Compresses(args[c]) THEN GzipOutcomes ELSE {"ok"}) :
       IF g # "ok"
       THEN /\ out' = [out EXCEPT ![c] = @ \o ResponseHeaders(args[c])]
            /\ wrote' = [wrote EXCEPT ![c] = "gzip-error"]
            /\ pc' = [pc EXCEPT ![c] = "closed"]
       ELSE \/ /\ out' = [out EXCEPT ![c] = @ \o ResponseHeaders(args[c])]
               /\ wrote' = [wrote EXCEPT ![c] = "headers"]
               /\ pc' = [pc EXCEPT ![c] = "sendbody"]
            \/ /\ \E w \in PartialWrites(ResponseHeaders(args[c])) :
                    out' = [out EXCEPT ![c] = @ \o w]
               /\ wrote' = [wrote EXCEPT ![c] = "header-error"]
               /\ pc' = [pc EXCEPT ![c] = "closed"]
  /\ UNCHANGED <<setupVars, alive, acceptErrors, netVars, buf, reqVars,
                 handler, params, fsErr, args, files>>

\* the compression and the first conn.Write: the header block
sendResponse(c) ==
  /\ alive
  /\ pc[c] = "send"
  /\ \E g \in (IF Compresses(args[c]) THEN GzipOutcomes ELSE {"ok"}) :
       IF g # "ok"
       THEN /\ wrote' = [wrote EXCEPT ![c] = "gzip-error"]
            /\ pc' = [pc EXCEPT ![c] = "closed"]
            /\ UNCHANGED out
       ELSE \/ /\ out' = [out EXCEPT ![c] = @ \o ResponseHeaders(args[c])]
               /\ wrote' = [wrote EXCEPT ![c] = "headers"]
               /\ pc' = [pc EXCEPT ![c] = "sendbody"]
            \/ /\ \E w \in PartialWrites(ResponseHeaders(args[c])) :
                    out' = [out EXCEPT ![c] = @ \o w]
               /\ wrote' = [wrote EXCEPT ![c] = "header-error"]
               /\ pc' = [pc EXCEPT ![c] = "closed"]
  /\ UNCHANGED <<setupVars, alive, acceptErrors, netVars, buf, reqVars,
                 handler, params, fsErr, args, files>>

\* the second conn.Write: the body
sendResponseBody(c) ==
  /\ alive
  /\ pc[c] = "sendbody"
  /\ \/ /\ out' = [out EXCEPT ![c] = @ \o BodyBytes(args[c])]
        /\ wrote' = [wrote EXCEPT ![c] = "all"]
     \/ /\ \E w \in PartialWrites(BodyBytes(args[c])) :
             out' = [out EXCEPT ![c] = @ \o w]
        /\ wrote' = [wrote EXCEPT ![c] = "body-error"]
  /\ pc' = [pc EXCEPT ![c] = "closed"]
  /\ UNCHANGED <<setupVars, alive, acceptErrors, netVars, buf, reqVars,
                 handler, params, fsErr, args, files>>

(***************************************************************************)
(* The specifications                                                      *)
(***************************************************************************)
Next ==
  \/ AcceptError
  \/ \E c \in Conns :
       \/ ListenAndServe(c)
       \/ ClientSend(c)
       \/ ClientClose(c)
       \/ Fill(c)
       \/ ReadRequestLine(c)
       \/ parseHeaders(c)
       \/ parseBody(c)
       \/ handleConnection(c)
       \/ handleFilesReadBack(c)
       \/ sendResponse(c)
       \/ sendResponseBody(c)

\* one client at a time, every request of RawRequests in every segmentation
Spec == Init /\ [][Next]_vars

\* two clients at once, the requests of ConcInputs
SpecConc == InitConc /\ [][Next]_vars

\* one client at a time and a server with any of the tables of MatchTables
SpecMatch == InitMatch /\ [][Next]_vars

(***************************************************************************)
(* Reading a response off the wire, as a client does                       *)
(***************************************************************************)
\* the header block ends at the first blank line
RespHead(w) == SubSeq(w, 1, Index(w, "\r\n\r\n") - 1)
RespBody(w) == From(w, Index(w, "\r\n\r\n") + 4)
RespLines(w) == Split(RespHead(w), "\r\n")
RespStatus(w) == RespLines(w)[1]

HasRespHeader(w, name) ==
  \E i \in 2..Len(RespLines(w)) : HasPrefix(RespLines(w)[i], name \o ": ")

RespHeader(w, name) ==
  LET ls == RespLines(w)
      i  == CHOOSE k \in 2..Len(ls) : HasPrefix(ls[k], name \o ": ")
  IN From(ls[i], Len(name) + 3)

\* gunzip: the payload of a well formed member, "error" for anything else
GzipDecompress(z) ==
  IF /\ Len(z) >= Len(GzipHeader) + Len(GzipTrailer)
     /\ HasPrefix(z, GzipHeader)
     /\ From(z, Len(z) - Len(GzipTrailer) + 1) = GzipTrailer
  THEN SubSeq(z, Len(GzipHeader) + 1, Len(z) - Len(GzipTrailer))
  ELSE "error"

\* a string of decimal digits
IsNumber(v) == Len(v) > 0 /\ \A i \in 1..Len(v) : IsDigit(Ch(v, i))

(***************************************************************************)
(* C1: every response that sendResponse writes in full carries in its      *)
(* Content-Length line the number of bytes that follow the blank line;     *)
(* when the response is gzip encoded that number is the length of the      *)
(* compressed bytes and differs from the length of the body passed in.     *)
(* Once the header block is out, its Content-Length is the length of the   *)
(* bytes the second write is given.                                        *)
(***************************************************************************)
C1_ContentLengthIsBytesWritten ==
  \A c \in Conns :
    /\ wrote[c] = "all" =>
         /\ HasRespHeader(out[c], "Content-Length")
         /\ RespHeader(out[c], "Content-Length") = Itoa(Len(RespBody(out[c])))
         /\ HasRespHeader(out[c], "Content-Encoding") =>
              /\ RespHeader(out[c], "Content-Length")
                   = Itoa(Len(GzipCompress(args[c].body)))
              /\ RespHeader(out[c], "Content-Length")
                   # Itoa(Len(args[c].body))
    /\ wrote[c] = "headers" =>
         out[c] = RespHead(out[c]) \o "\r\n\r\n"
           /\ RespHeader(out[c], "Content-Length")
                = Itoa(Len(BodyBytes(args[c])))

\* a gzip encoded response with a non-empty body has been written in full
C1_Witness ==
  \E c \in Conns :
    /\ wrote[c] = "all"
    /\ HasRespHeader(out[c], "Content-Encoding")
    /\ args[c].body # ""
    /\ Len(RespBody(out[c])) > Len(args[c].body)

(***************************************************************************)
(* Reading a request as the client wrote it                                *)
(***************************************************************************)
\* the request line is complete in the client's bytes
HasFirstLine(r) == Index(r, "\n") > 0

RequestLineText(r) ==
  TrimSpace(IF HasFirstLine(r) THEN SubSeq(r, 1, Index(r, "\n")) ELSE r)

\* the text before the first space of the request line
MethodToken(r) ==
  LET l == RequestLineText(r)
  IN IF Index(l, " ") = 0 THEN l ELSE SubSeq(l, 1, Index(l, " ") - 1)

\* the request line has a space, hence two tokens or more
HasPathToken(r) == Index(RequestLineText(r), " ") > 0

\* the text between the first space and the next
PathToken(r) ==
  LET l    == RequestLineText(r)
      rest == From(l, Index(l, " ") + 1)
  IN IF Index(rest, " ") = 0 THEN rest
     ELSE SubSeq(rest, 1, Index(rest, " ") - 1)

\* the index of the first byte after the blank line that ends the headers,
\* 0 when the client sends no blank line
HeaderEnd(r) ==
  LET a == Index(r, "\n\n")
      b == Index(r, "\n\r\n")
  IN IF a > 0 /\ (b = 0 \/ a < b) THEN a + 2
     ELSE IF b > 0 THEN b + 3 ELSE 0

\* the bytes the client sends after that blank line
ClientBody(r) == IF HeaderEnd(r) = 0 THEN "" ELSE From(r, HeaderEnd(r))

\* /files/<name> with a single segment as name
IsFilesPath(p) == HasPrefix(p, "/files/") /\ Index(From(p, 8), "/") = 0

(***************************************************************************)
(* C2: a request produced from a stream with a Content-Length header of    *)
(* value n, whose client sends n bytes or more after the blank line, has   *)
(* exactly the first n of those bytes as its body, however the bytes are   *)
(* cut into segments; without the header the body is empty.                *)
(***************************************************************************)
C2_BodyIsTheDeclaredBytes ==
  \A c \in Conns :
    request[c].produced =>
      LET h == request[c].Headers
      IN IF "Content-Length" \in DOMAIN h
         THEN (/\ IsNumber(h["Content-Length"])
               /\ Len(ClientBody(raw[c])) >= ParseDigits(h["Content-Length"], 0))
              => request[c].Body =
                   SubSeq(ClientBody(raw[c]), 1,
                          ParseDigits(h["Content-Length"], 0))
         ELSE request[c].Body = ""

(***************************************************************************)
(* C3: every error is scoped to its connection: no step ends the process,  *)
(* and a step of one connection's worker leaves the worker, the request    *)
(* and the response of every other connection as they were.                *)
(***************************************************************************)
C3_ErrorsAreConnectionScoped ==
  [][ /\ alive'
      /\ \A c, d \in Conns :
           (c # d /\ (pc'[c] # pc[c] \/ err'[c] # err[c])) =>
             /\ pc'[d] = pc[d]
             /\ err'[d] = err[d]
             /\ request'[d] = request[d]
             /\ out'[d] = out[d] ]_vars

(***************************************************************************)
(* C4: once the headers are read, a Content-Length value that is not a     *)
(* non-negative integer fails the parse: the process goes on, no request   *)
(* is produced, no handler is invoked, nothing is written, and the worker  *)
(* ends with an error.                                                     *)
(***************************************************************************)
BadContentLength(c) ==
  /\ pc[c] \notin {"free", "reqline", "headers"}
  /\ "Content-Length" \in DOMAIN parsed[c].headers
  /\ ~IsNumber(parsed[c].headers["Content-Length"])

C4_InvalidContentLengthFails ==
  \A c \in Conns :
    BadContentLength(c) =>
      /\ alive
      /\ ~request[c].produced
      /\ handler[c] = ""
      /\ out[c] = ""
      /\ pc[c] \in {"body", "closed"}
      /\ pc[c] = "closed" => err[c] # ""

(***************************************************************************)
(* C5: a complete request for /files/<name> with a method other than GET   *)
(* and POST is answered 405 Method Not Allowed (unless a write to the      *)
(* connection fails).                                                      *)
(***************************************************************************)
C5_FilesOtherMethodIs405 ==
  \A c \in Conns :
    ( /\ pc[c] = "closed"
      /\ HeaderEnd(raw[c]) > 0
      /\ HasPathToken(raw[c])
      /\ IsFilesPath(PathToken(raw[c]))
      /\ MethodToken(raw[c]) \notin {MethodGet, MethodPost}
      /\ wrote[c] \notin {"header-error", "body-error"} ) =>
        /\ wrote[c] = "all"
        /\ RespStatus(out[c]) = StatusMethodNotAllowed

(***************************************************************************)
(* C6: when the method token of the request line is neither GET nor POST   *)
(* no request is produced, no handler runs, nothing is written to the      *)
(* connection, and the worker goes from reading the request line straight  *)
(* to closing the connection, with the error "unsupported method" when     *)
(* the line has a second token.                                            *)
(***************************************************************************)
C6_UnsupportedMethodFails ==
  \A c \in Conns :
    (pc[c] # "free" /\ MethodToken(raw[c]) \notin {MethodGet, MethodPost}) =>
      /\ ~request[c].produced
      /\ handler[c] = ""
      /\ out[c] = ""
      /\ wrote[c] = "nothing"
      /\ pc[c] \in {"reqline", "closed"}
      /\ pc[c] = "closed" =>
           /\ err[c] \in {"unsupported method", "malformed request line", "EOF"}
           /\ (HasFirstLine(raw[c]) /\ HasPathToken(raw[c])) =>
                err[c] = "unsupported method"

\* a DELETE request was refused and its connection closed with nothing sent
C6_Witness ==
  \E c \in Conns :
    /\ MethodToken(raw[c]) = "DELETE"
    /\ pc[c] = "closed"
    /\ err[c] = "unsupported method"
    /\ out[c] = ""

(***************************************************************************)
(* C7: a request line with fewer than two space separated tokens closes    *)
(* the connection with the error "malformed request line" and without a    *)
(* byte written to the client.                                             *)
(***************************************************************************)
C7_MalformedLineWritesNothing ==
  \A c \in Conns :
    (pc[c] # "free" /\ HasFirstLine(raw[c]) /\ ~HasPathToken(raw[c])) =>
      /\ out[c] = ""
      /\ wrote[c] = "nothing"
      /\ ~request[c].produced
      /\ pc[c] \in {"reqline", "closed"}
      /\ pc[c] = "closed" => err[c] = "malformed request line"

\* the single token request line GET closed its connection, nothing sent
C7_Witness ==
  \E c \in Conns :
    /\ HasFirstLine(raw[c])
    /\ RequestLineText(raw[c]) = "GET"
    /\ pc[c] = "closed"
    /\ err[c] = "malformed request line"
    /\ out[c] = ""

(***************************************************************************)
(* C8: every request the parser produces has a non-empty method and a      *)
(* non-empty path.                                                         *)
(***************************************************************************)
C8_RequestHasMethodAndPath ==
  \A c \in Conns :
    request[c].produced => request[c].Method # "" /\ request[c].Path # ""

(***************************************************************************)
(* C9: with a single connection writing the file and no failure of the     *)
(* byte store, POST /files/<name> with body B is answered 201 Created with *)
(* body B; a GET of that name that reads the file after this answer is     *)
(* given 200 with body B; and a GET answered while no connection has       *)
(* posted is answered 404 with an empty body.                              *)
(***************************************************************************)
\* the connections that have sent a POST
Writers == {c \in Conns : pc[c] # "free" /\ MethodToken(raw[c]) = MethodPost}

\* c posts to /files/<name> a body of the length its Content-Length declares
PostsFile(c) ==
  /\ pc[c] # "free"
  /\ MethodToken(raw[c]) = MethodPost
  /\ IsFilesPath(PathToken(raw[c]))
  /\ HeaderEnd(raw[c]) > 0
  /\ request[c].produced
  /\ "Content-Length" \in DOMAIN request[c].Headers
  /\ request[c].Headers["Content-Length"] = Itoa(Len(ClientBody(raw[c])))

GetsFile(d) ==
  /\ pc[d] # "free"
  /\ MethodToken(raw[d]) = MethodGet
  /\ IsFilesPath(PathToken(raw[d]))

PostAnswered(c) ==
  /\ PostsFile(c)
  /\ Writers = {c}
  /\ fsErr[c] = ""
  /\ wrote[c] = "all"

C9_PostIsCreatedWithBody ==
  \A c \in Conns :
    PostAnswered(c) =>
      /\ RespStatus(out[c]) = StatusCreated
      /\ RespBody(out[c]) = ClientBody(raw[c])

C9_MissingFileIs404 ==
  \A d \in Conns :
    (GetsFile(d) /\ Writers = {} /\ wrote[d] = "all") =>
      /\ RespStatus(out[d]) = StatusNotFound
      /\ RespBody(out[d]) = ""

C9_LaterGetReadsBody ==
  \A c, d \in Conns :
    ( /\ PostAnswered(c)
      /\ PathToken(raw[d]) = PathToken(raw[c])
      /\ GetsFile(d)
      /\ pc[d] = "route"
      /\ pc'[d] = "send"
      /\ fsErr'[d] = "" ) =>
        /\ args'[d].status = StatusOK
        /\ args'[d].body = ClientBody(raw[c])

C9_PostThenGet ==
  /\ [](C9_PostIsCreatedWithBody /\ C9_MissingFileIs404)
  /\ [][C9_LaterGetReadsBody]_vars

(***************************************************************************)
(* C10: a response written in full by the echo handler is gzip encoded,    *)
(* with Content-Encoding: gzip and a body that decompresses to the path    *)
(* segment after /echo/, exactly when the Accept-Encoding value of the     *)
(* request has, between commas or the ends of the value, a token that is   *)
(* "gzip" once the white space around it is dropped; otherwise it has no   *)
(* Content-Encoding header and the segment itself as body.                 *)
(***************************************************************************)
\* v[i..j] is "gzip" and only white space lies between it and the commas
\* (or ends of v) on either side
HasGzipToken(v) ==
  \E i \in 1..(Len(v) - 3) :
    /\ SubSeq(v, i, i + 3) = "gzip"
    /\ \E a \in 0..(i - 1) :
         /\ a = 0 \/ Ch(v, a) = ","
         /\ \A k \in (a + 1)..(i - 1) : IsSpace(Ch(v, k))
    /\ \E b \in (i + 4)..(Len(v) + 1) :
         /\ b = Len(v) + 1 \/ Ch(v, b) = ","
         /\ \A k \in (i + 4)..(b - 1) : IsSpace(Ch(v, k))

EchoMessage(c) == From(request[c].Path, Len("/echo/") + 1)

C10_GzipIffAccepted ==
  \A c \in Conns :
    (handler[c] = "handleEchoMessage" /\ wrote[c] = "all") =>
      IF /\ "Accept-Encoding" \in DOMAIN request[c].Headers
         /\ HasGzipToken(request[c].Headers["Accept-Encoding"])
      THEN /\ HasRespHeader(out[c], "Content-Encoding")
           /\ RespHeader(out[c], "Content-Encoding") = "gzip"
           /\ GzipDecompress(RespBody(out[c])) = EchoMessage(c)
      ELSE /\ ~HasRespHeader(out[c], "Content-Encoding")
           /\ RespBody(out[c]) = EchoMessage(c)

\* gzip was one token among others, with white space around the tokens,
\* and the response sent is gzip encoded
C10_Witness ==
  \E c \in Conns :
    /\ handler[c] = "handleEchoMessage"
    /\ wrote[c] = "all"
    /\ "Accept-Encoding" \in DOMAIN request[c].Headers
    /\ request[c].Headers["Accept-Encoding"] # "gzip"
    /\ HasGzipToken(request[c].Headers["Accept-Encoding"])
    /\ HasRespHeader(out[c], "Content-Encoding")
    /\ EchoMessage(c) # ""

(***************************************************************************)
(* C11: a GET /echo/<msg> request that does not accept gzip and whose      *)
(* response is written in full is answered 200 OK with the path segment    *)
(* after /echo/ as the client wrote it for body, byte for byte, with no    *)
(* Content-Encoding header and with Content-Length the length of <msg>.    *)
(***************************************************************************)
\* /echo/<msg> with a single segment as message
IsEchoPath(p) == HasPrefix(p, "/echo/") /\ Index(From(p, 7), "/") = 0

AcceptsGzip(c) ==
  /\ "Accept-Encoding" \in DOMAIN request[c].Headers
  /\ HasGzipToken(request[c].Headers["Accept-Encoding"])

\* c sent a GET for /echo/<msg> and the whole response is on the wire
EchoAnswered(c) ==
  /\ wrote[c] = "all"
  /\ MethodToken(raw[c]) = MethodGet
  /\ HasPathToken(raw[c])
  /\ IsEchoPath(PathToken(raw[c]))

C11_EchoIsRawSegment ==
  \A c \in Conns :
    (EchoAnswered(c) /\ ~AcceptsGzip(c)) =>
      /\ RespStatus(out[c]) = StatusOK
      /\ RespBody(out[c]) = From(PathToken(raw[c]), 7)
      /\ ~HasRespHeader(out[c], "Content-Encoding")
      /\ RespHeader(out[c], "Content-Length")
           = Itoa(Len(From(PathToken(raw[c]), 7)))

\* the percent-encoded message a%20b came back as it was sent
C11_Witness ==
  \E c \in Conns :
    /\ EchoAnswered(c)
    /\ ~AcceptsGzip(c)
    /\ PathToken(raw[c]) = "/echo/a%20b"
    /\ RespBody(out[c]) = "a%20b"

(***************************************************************************)
(* C12: a produced request whose path is none of /, /user-agent,           *)
(* /echo/<segment> and /files/<segment> has no handler invoked and no      *)
(* error: sendResponse is called with 404 Not Found, text/plain and an     *)
(* empty body, and that is what a response written in full carries.        *)
(***************************************************************************)
NoRouteFor(p) ==
  /\ p # "/"
  /\ p # "/user-agent"
  /\ ~IsEchoPath(p)
  /\ ~IsFilesPath(p)

C12_UnmatchedPathIs404 ==
  \A c \in Conns :
    (request[c].produced /\ NoRouteFor(request[c].Path)) =>
      /\ handler[c] = ""
      /\ err[c] = ""
      /\ pc[c] \in {"route", "send", "sendbody", "closed"}
      /\ pc[c] # "route" =>
           args[c] = Args(StatusNotFound, ContentTypePlainText, "", "", FALSE)
      /\ wrote[c] = "all" =>
           /\ RespStatus(out[c]) = StatusNotFound
           /\ RespHeader(out[c], "Content-Type") = ContentTypePlainText
           /\ RespBody(out[c]) = ""

\* /echo, which has a segment less than /echo/:message, was answered 404
C12_Witness ==
  \E c \in Conns :
    /\ request[c].produced
    /\ request[c].Path = "/echo"
    /\ wrote[c] = "all"
    /\ RespStatus(out[c]) = StatusNotFound

(***************************************************************************)
(* C13: when a file call of handleFiles fails, the handler calls           *)
(* sendResponse once, with 500 Internal Server Error and an empty body for *)
(* a POST (failed write, or failed read-back after a successful write) and *)
(* with 404 Not Found and an empty body for a GET; parseRequest reported   *)
(* no error, and a response written in full is that single response.       *)
(***************************************************************************)
FileCallFailed(c) ==
  /\ handler[c] = "handleFiles"
  /\ fsErr[c] # ""
  /\ pc[c] \in {"send", "sendbody", "closed"}

C13_FileErrorResponses ==
  \A c \in Conns :
    FileCallFailed(c) =>
      /\ err[c] = ""
      /\ request[c].Method = MethodPost =>
           args[c] = Args(StatusInternalServerError, ContentTypePlainText,
                          "", "", FALSE)
      /\ request[c].Method = MethodGet =>
           args[c] = Args(StatusNotFound, ContentTypePlainText, "", "", FALSE)
      /\ wrote[c] = "all" =>
           /\ RespStatus(out[c]) = args[c].status
           /\ RespBody(out[c]) = ""
           /\ Index(From(out[c], 2), "HTTP/1.1") = 0

\* the write succeeded, the read-back failed, and 500 was sent
C13_Witness ==
  \E c \in Conns :
    /\ FileCallFailed(c)
    /\ request[c].Method = MethodPost
    /\ fsErr[c] = "error"
    /\ filePath(params[c]) \in DOMAIN files
    /\ wrote[c] = "all"
    /\ RespStatus(out[c]) = StatusInternalServerError

(***************************************************************************)
(* C14: a response written in full to a GET / request is 200 OK with an    *)
(* empty body, Content-Length 0 and no Content-Encoding header, whatever   *)
(* headers the request has.                                                *)
(***************************************************************************)
IndexAnswered(c) ==
  /\ wrote[c] = "all"
  /\ MethodToken(raw[c]) = MethodGet
  /\ HasPathToken(raw[c])
  /\ PathToken(raw[c]) = "/"

C14_IndexIsEmpty200 ==
  \A c \in Conns :
    IndexAnswered(c) =>
      /\ RespStatus(out[c]) = StatusOK
      /\ RespBody(out[c]) = ""
      /\ RespHeader(out[c], "Content-Length") = "0"
      /\ ~HasRespHeader(out[c], "Content-Encoding")

\* GET / with Accept-Encoding: gzip was answered
C14_Witness ==
  \E c \in Conns : IndexAnswered(c) /\ AcceptsGzip(c)

(***************************************************************************)
(* C15: a response written in full to a GET /user-agent request is 200 OK  *)
(* with the value of the header named exactly User-Agent as body, and with *)
(* an empty body when the request has no header of that name.              *)
(***************************************************************************)
UserAgentAnswered(c) ==
  /\ wrote[c] = "all"
  /\ MethodToken(raw[c]) = MethodGet
  /\ HasPathToken(raw[c])
  /\ PathToken(raw[c]) = "/user-agent"

C15_UserAgentEchoed ==
  \A c \in Conns :
    UserAgentAnswered(c) =>
      /\ RespStatus(out[c]) = StatusOK
      /\ ~HasRespHeader(out[c], "Content-Encoding")
      /\ RespBody(out[c]) =
           IF "User-Agent" \in DOMAIN request[c].Headers
           THEN request[c].Headers["User-Agent"] ELSE ""

\* User-Agent: f/1 came back as the body f/1
C15_Witness ==
  \E c \in Conns :
    /\ UserAgentAnswered(c)
    /\ Index(raw[c], "\nUser-Agent: f/1\n") > 0
    /\ RespBody(out[c]) = "f/1"

(***************************************************************************)
(* C16: the write and the read-back of a POST to /files/<name> are two     *)
(* steps with the file shared between the connections: the read-back       *)
(* answers 201 Created with what the file holds at that moment, whichever  *)
(* connection wrote it last, so that a 201 response carries the body of    *)
(* one of the requests posted to that file (or nothing, after a write that *)
(* failed midway), not always the body of its own request.                 *)
(***************************************************************************)
\* the bodies of the requests that handleFiles has been given for path
PostedTo(path) ==
  {request[d].Body : d \in {e \in Conns : /\ handler[e] = "handleFiles"
                                          /\ request[e].Method = MethodPost
                                          /\ filePath(params[e]) = path}}

C16_CreatedCarriesAPostedBody ==
  \A c \in Conns :
    ( /\ handler[c] = "handleFiles"
      /\ request[c].Method = MethodPost
      /\ wrote[c] = "all"
      /\ RespStatus(out[c]) = StatusCreated ) =>
        RespBody(out[c]) \in PostedTo(filePath(params[c])) \cup {""}

C16_ReadBackStep ==
  \A c \in Conns :
    (pc[c] = "readback" /\ pc'[c] = "send" /\ fsErr'[c] = "") =>
      /\ filePath(params[c]) \in DOMAIN files
      /\ args'[c] = Args(StatusCreated, ContentTypeOctetStream,
                         files[filePath(params[c])], "", FALSE)

C16_ReadBackIsNotAtomicWithWrite ==
  /\ []C16_CreatedCarriesAPostedBody
  /\ [][C16_ReadBackStep]_vars

\* two connections posted different bodies to one file and one of them was
\* answered 201 Created with the body of the other
C16_Witness ==
  \E c, d \in Conns :
    /\ c # d
    /\ handler[c] = "handleFiles" /\ handler[d] = "handleFiles"
    /\ request[c].Method = MethodPost /\ request[d].Method = MethodPost
    /\ filePath(params[c]) = filePath(params[d])
    /\ request[c].Body # request[d].Body
    /\ wrote[c] = "all"
    /\ RespStatus(out[c]) = StatusCreated
    /\ RespBody(out[c]) = request[d].Body

(***************************************************************************)
(* C17: a path matches a pattern exactly when both have the same number of *)
(* '/'-separated segments and every pattern segment that does not start    *)
(* with ':' equals the path segment at its index.  The handler invoked is  *)
(* the handler of a pattern the path matches and its params map binds      *)
(* exactly the parameter names of that pattern, each to the path segment   *)
(* at the index of the name: nothing bound while another pattern was tried *)
(* and failed is in it.  Without a matching pattern no handler is invoked. *)
(***************************************************************************)
Segments(s) == Split(s, "/")

IsParamSegment(seg) == Len(seg) >= 1 /\ Ch(seg, 1) = ":"

SegmentsMatch(path, pattern) ==
  /\ Len(Segments(path)) = Len(Segments(pattern))
  /\ \A i \in 1..Len(Segments(pattern)) :
       IsParamSegment(Segments(pattern)[i]) \/
         Segments(pattern)[i] = Segments(path)[i]

\* the indexes of the pattern segments that are the parameter name
ParamIndexes(pattern, name) ==
  {i \in 1..Len(Segments(pattern)) :
     /\ IsParamSegment(Segments(pattern)[i])
     /\ SubSeq(Segments(pattern)[i], 2, Len(Segments(pattern)[i])) = name}

ParamNames(pattern) ==
  {SubSeq(Segments(pattern)[i], 2, Len(Segments(pattern)[i])) :
     i \in {j \in 1..Len(Segments(pattern)) :
              IsParamSegment(Segments(pattern)[j])}}

\* each parameter name bound to the path segment at its index (the last
\* index, should a pattern use a name twice)
Bindings(path, pattern) ==
  [name \in ParamNames(pattern) |->
     Segments(path)[CHOOSE i \in ParamIndexes(pattern, name) :
                      \A j \in ParamIndexes(pattern, name) : j <= i]]

Routed(c) == pc[c] \in {"readback", "send", "sendbody", "closed"}
               /\ request[c].produced

C17_MatchRouteAndParams ==
  \A c \in Conns :
    request[c].produced =>
      /\ \A p \in DOMAIN serverRoutes :
           matchRoute(request[c].Path, p, EmptyMap).matched
             <=> SegmentsMatch(request[c].Path, p)
      /\ (Routed(c) /\ handler[c] # "") =>
           \E p \in DOMAIN serverRoutes :
             /\ SegmentsMatch(request[c].Path, p)
             /\ handler[c] = serverRoutes[p]
             /\ params[c] = Bindings(request[c].Path, p)
      /\ (Routed(c) /\ handler[c] = "") =>
           \A p \in DOMAIN serverRoutes : ~SegmentsMatch(request[c].Path, p)

\* a handler was invoked with bindings, for a path that another pattern of
\* the table fails to match only after one of its parameters was bound
C17_Witness ==
  \E c \in Conns :
    /\ Routed(c)
    /\ handler[c] # ""
    /\ params[c] # EmptyMap
    /\ \E q \in DOMAIN serverRoutes :
         /\ ~SegmentsMatch(request[c].Path, q)
         /\ matchRoute(request[c].Path, q, EmptyMap).params # EmptyMap

(***************************************************************************)
(* C18: with the table registered by setupRoutes a request path matches at *)
(* most one pattern, and every order of visiting the table ends the loop   *)
(* of handleConnection with the same pattern and the same params map, so   *)
(* that the handler invoked and the arguments of its response do not       *)
(* depend on the order.                                                    *)
(***************************************************************************)
MatchingPatterns(path) ==
  {p \in DOMAIN routes : matchRoute(path, p, EmptyMap).matched}

C18_OrderDoesNotMatter ==
  \A c \in Conns :
    request[c].produced =>
      /\ serverRoutes = routes
      /\ Cardinality(MatchingPatterns(request[c].Path)) <= 1
      /\ Cardinality(LoopResults(TableOrders[serverRoutes], serverRoutes,
                                 request[c].Path)) = 1
      /\ (Routed(c) /\ handler[c] # "") =>
           /\ MatchingPatterns(request[c].Path) # {}
           /\ \A p \in MatchingPatterns(request[c].Path) :
                /\ handler[c] = routes[p]
                /\ params[c] = matchRoute(request[c].Path, p, EmptyMap).params
      /\ (Routed(c) /\ handler[c] = "") =>
           /\ MatchingPatterns(request[c].Path) = {}
           /\ args[c].status = StatusNotFound

\* a request whose path matches one of the four patterns was answered in
\* full by the handler of that pattern
C18_Witness ==
  \E c \in Conns :
    /\ Routed(c)
    /\ wrote[c] = "all"
    /\ \E p \in DOMAIN routes :
         /\ MatchingPatterns(request[c].Path) = {p}
         /\ handler[c] = routes[p]
         /\ routes[p] = "handleUserAgent"

(***************************************************************************)
(* C19: when a request is produced, its headers map is what the header     *)
(* lines the client sent say.  The header lines are the lines after the    *)
(* request line up to the first empty one, each taken without its line     *)
(* terminator and the white space around it.  A line holding ": " gives    *)
(* the name before the first ": " (as spelled, upper and lower case kept   *)
(* apart) and the value after it; a line without ": " gives nothing; and   *)
(* the value of a name is the one of the last line that has the name.      *)
(***************************************************************************)
\* the lines the client sent, each without its terminator and without the
\* white space around it (what follows the last "\n" is not a line)
SentLines(r) ==
  [i \in 1..(Len(Split(r, "\n")) - 1) |-> TrimSpace(Split(r, "\n")[i])]

\* the index of the first empty line after the request line
HeadersEndLine(r) ==
  CHOOSE k \in 2..Len(SentLines(r)) :
    /\ SentLines(r)[k] = ""
    /\ \A j \in 2..(k - 1) : SentLines(r)[j] # ""

HasHeadersEnd(r) ==
  \E k \in 2..Len(SentLines(r)) : SentLines(r)[k] = ""

SepAt(l, j) == j >= 1 /\ j + 1 <= Len(l) /\ SubSeq(l, j, j + 1) = ": "

HasSep(l) == \E j \in 1..Len(l) : SepAt(l, j)

FirstSep(l) ==
  CHOOSE j \in 1..Len(l) : SepAt(l, j) /\ \A i \in 1..(j - 1) : ~SepAt(l, i)

NameOfLine(l) == SubSeq(l, 1, FirstSep(l) - 1)

ValueOfLine(l) == SubSeq(l, FirstSep(l) + 2, Len(l))

\* the indexes of the header lines that give the name
LinesNaming(r, name) ==
  {i \in 2..(HeadersEndLine(r) - 1) :
     HasSep(SentLines(r)[i]) /\ NameOfLine(SentLines(r)[i]) = name}

ExpectedHeaders(r) ==
  [name \in {NameOfLine(SentLines(r)[i]) :
               i \in {j \in 2..(HeadersEndLine(r) - 1) :
                        HasSep(SentLines(r)[j])}} |->
     ValueOfLine(SentLines(r)[CHOOSE i \in LinesNaming(r, name) :
                                \A j \in LinesNaming(r, name) : j <= i])]

Ended(c) ==
  err[c] # "" \/ wrote[c] \in {"all", "header-error", "body-error",
                                "gzip-error"}

C20_AtMostOneResponse ==
  \A c \in Conns :
    /\ HasPrefix(ResponseHeaders(args[c]) \o BodyBytes(args[c]), out[c])
    /\ (wrote[c] = "nothing" \/ err[c] # "") => out[c] = ""
    /\ Ended(c) => pc[c] = "closed"

C20_NothingAfterClose ==
  \A c \in Conns :
    pc[c] = "closed" =>
      /\ pc'[c] = "closed"
      /\ out'[c] = out[c]
      /\ wrote'[c] = wrote[c]

\* the client has sent all it sends, and that is a whole request
Delivered(c) ==
  /\ pc[c] # "free"
  /\ unsent[c] = <<>>
  /\ MethodToken(raw[c]) \in {MethodGet, MethodPost}
  /\ HasPathToken(raw[c])
  /\ HeaderEnd(raw[c]) > 0
  /\ HasHeadersEnd(raw[c])
  /\ LET h == ExpectedHeaders(raw[c])
     IN "Content-Length" \in DOMAIN h =>
          /\ IsNumber(h["Content-Length"])
          /\ Len(ClientBody(raw[c])) >= ParseDigits(h["Content-Length"], 0)

\* the worker has closed the connection after its sendResponse call
Responded(c) ==
  /\ pc[c] = "closed"
  /\ wrote[c] \in {"all", "header-error", "body-error", "gzip-error"}

\* the worker is in a read that returns only when the client sends or closes
WaitsForClient(c) ==
  /\ pc[c] \in {"reqline", "headers", "body"}
  /\ ~eof[c]
  /\ sock[c] = ""
  /\ IF pc[c] = "body"
     THEN /\ buf[c] = ""
          /\ "Content-Length" \in DOMAIN parsed[c].headers
          /\ BodyLength(parsed[c].headers["Content-Length"]) > 0
     ELSE Index(buf[c], "\n") = 0

C20_DeliveredIsServed ==
  \A c \in Conns :
    (Delivered(c) /\ ~Responded(c)) =>
      /\ alive
      /\ pc[c] # "closed"
      /\ ~WaitsForClient(c)

C20_OneResponseThenClose ==
  /\ [](C20_AtMostOneResponse /\ C20_DeliveredIsServed)
  /\ [][C20_NothingAfterClose]_vars

(***************************************************************************)
(* C21: sendResponse writes the header block first and the body second.    *)
(* After a failed header write only a part of the header block is on the   *)
(* wire and no byte of the body; after a failed body write the header      *)
(* block and a part of the body are.  A failed write is not tried again:   *)
(* the connection is closed and what is on the wire stays as it is.        *)
(***************************************************************************)
\* w is the beginning of b, and not the whole of it unless b is empty
IsCutShort(w, b) ==
  /\ Len(w) <= Len(b)
  /\ SubSeq(b, 1, Len(w)) = w
  /\ Len(w) < Len(b) \/ b = ""

C21_WriteStages ==
  \A c \in Conns :
    /\ wrote[c] = "headers" =>
         /\ out[c] = ResponseHeaders(args[c])
         /\ pc[c] = "sendbody"
    /\ wrote[c] = "all" =>
         /\ out[c] = ResponseHeaders(args[c]) \o BodyBytes(args[c])
         /\ pc[c] = "closed"
    /\ wrote[c] = "header-error" =>
         /\ IsCutShort(out[c], ResponseHeaders(args[c]))
         /\ pc[c] = "closed"
    /\ wrote[c] = "body-error" =>
         /\ Len(out[c]) >= Len(ResponseHeaders(args[c]))
         /\ SubSeq(out[c], 1, Len(ResponseHeaders(args[c])))
              = ResponseHeaders(args[c])
         /\ IsCutShort(From(out[c], Len(ResponseHeaders(args[c])) + 1),
                       BodyBytes(args[c]))
         /\ pc[c] = "closed"

C21_NoRetry ==
  \A c \in Conns :
    /\ wrote[c] \in {"header-error", "body-error"} =>
         /\ out'[c] = out[c]
         /\ wrote'[c] = wrote[c]
         /\ pc'[c] = "closed"
    /\ out'[c] # out[c] =>
         \/ wrote[c] = "nothing" /\ wrote'[c] \in {"headers", "header-error"}
         \/ wrote[c] = "headers" /\ wrote'[c] \in {"all", "body-error"}

C21_HeadersThenBody ==
  /\ []C21_WriteStages
  /\ [][C21_NoRetry]_vars

\* the header write of a response with a body failed part way: a part of
\* the header block is on the wire and the connection is closed
C21_Witness ==
  \E c \in Conns :
    /\ wrote[c] = "header-error"
    /\ out[c] # ""
    /\ args[c].body # ""
    /\ pc[c] = "closed"

(***************************************************************************)
(* C22: what is on the wire of a response that sendResponse was told to    *)
(* compress is never mislabelled: when the compressor reports an error     *)
(* (on write or on close) no byte is written and the connection is closed, *)
(* and when a header block with Content-Encoding: gzip is on the wire the  *)
(* bytes after it are the beginning of the gzip compression of the body    *)
(* passed to sendResponse, and all of it once the response is written in   *)
(* full, when decompressing them gives that body back.                     *)
(***************************************************************************)
HasWholeHead(w) == Index(w, "\r\n\r\n") > 0

C22_NoMislabelledGzip ==
  \A c \in Conns :
    /\ wrote[c] = "gzip-error" =>
         /\ out[c] = ""
         /\ pc[c] = "closed"
    /\ ( /\ HasWholeHead(out[c])
         /\ HasRespHeader(out[c], "Content-Encoding")
         /\ RespHeader(out[c], "Content-Encoding") = "gzip" ) =>
         /\ Len(RespBody(out[c])) <= Len(GzipCompress(args[c].body))
         /\ SubSeq(GzipCompress(args[c].body), 1, Len(RespBody(out[c])))
              = RespBody(out[c])
         /\ wrote[c] = "all" =>
              GzipDecompress(RespBody(out[c])) = args[c].body

\* the compressor reported an error for a body that was to be compressed
C22_Witness ==
  \E c \in Conns :
    /\ wrote[c] = "gzip-error"
    /\ args[c].bodyIsCompressed
    /\ args[c].contentEncoding = "gzip"
    /\ args[c].body # ""
    /\ pc[c] = "closed"

====
